---- MODULE Spec2Model ----
(***************************************************************************)
(* A model of the Plugins registry of plugin-scaffolding (src/src/index.js) *)
(* : register, setup, has, run and teardown, with the asynchronous phase    *)
(* methods split at their await points.                                     *)
(***************************************************************************)
EXTENDS Integers, Sequences, FiniteSets, TLC

(***************************************************************************)
(* JavaScript values.  Every value is a record tagged with its kind; the    *)
(* second field is named after the kind so that values of different kinds   *)
(* are never compared field against field.                                  *)
(***************************************************************************)
Undefined == [t |-> "undefined"]
Null == [t |-> "null"]
Str(s) == [t |-> "string", s |-> s]
Num(n) == [t |-> "number", n |-> n]
Bool(b) == [t |-> "boolean", b |-> b]
Fn(f) == [t |-> "function", f |-> f]
Arr(a) == [t |-> "array", a |-> a]

\* A plugin bundle as an object literal; a property that is not written in
\* the literal reads as undefined.
Plugin(trigger, position, setup, run, teardown) ==
  [t |-> "object", name |-> Undefined, desc |-> Undefined, version |-> Undefined,
   trigger |-> trigger, position |-> position,
   setup |-> setup, run |-> run, teardown |-> teardown]

\* The same literal with the three descriptive properties given.
Described(p, name, desc, version) ==
  [p EXCEPT !.name = name, !.desc = desc, !.version = version]

(***************************************************************************)
(* The predicates imported from @feathers-plus/commons.                     *)
(***************************************************************************)
isArray(v) == v.t = "array"
isFunction(v) == v.t = "function"
isNullsy(v) == v.t \in {"undefined", "null"}
isObject(v) == v.t = "object"
isString(v) == v.t = "string"

\* JavaScript truthiness, as `if (setup)` and `if (teardown)` test it.
Truthy(v) ==
  CASE v.t \in {"undefined", "null"} -> FALSE
    [] v.t = "boolean" -> v.b
    [] v.t = "number" -> v.n # 0
    [] v.t = "string" -> v.s # ""
    [] OTHER -> TRUE

\* (isArray(x) ? x : [x]) as a sequence of values.
AsList(v) == IF isArray(v) THEN v.a ELSE <<v>>

\* forEach(func => { if (!isFunction(func)) throwError(...) }) finds nothing
\* to throw about.
AllFunctions(v) == \A i \in 1..Len(AsList(v)) : isFunction(AsList(v)[i])

\* [].concat(...arr): an array element contributes its elements, any other
\* element, undefined included, contributes itself.
flattenNone(arr) == arr

RECURSIVE flattenArraysOnly(_)
flattenArraysOnly(arr) ==
  IF arr = <<>> THEN <<>>
  ELSE (IF isArray(Head(arr)) THEN Head(arr).a ELSE <<>>) \o flattenArraysOnly(Tail(arr))

RECURSIVE flatten1Level(_)
flatten1Level(arr) ==
  IF arr = <<>> THEN <<>>
  ELSE AsList(Head(arr)) \o flatten1Level(Tail(arr))

(***************************************************************************)
(* State.                                                                   *)
(***************************************************************************)
VARIABLES
  registry,        \* this._registry: the Map's entries in insertion order
  pluginsContext,  \* this._pluginsContext: top-level properties of the clone
  options,         \* the object pluginsContext.options and the seed share
  seed,            \* top-level properties of the constructor argument
  invs,            \* setup/run/teardown invocations suspended at an await
  last,            \* the operation the latest step ended, if it ended one
  regs,            \* history: the bundles registered successfully, in order
  setupAt,         \* history: Len(regs) when setup() last flattened, or -1
  pushed           \* run.length of the array `run` of src/test/order.test.js

vars == <<registry, pluginsContext, options, seed, invs, last, regs, setupAt, pushed>>

(***************************************************************************)
(* Registry lookups: a Map keyed by trigger, iterated in insertion order.   *)
(***************************************************************************)
Triggers(reg) == {reg[k].trigger : k \in 1..Len(reg)}

hasCallbacks(reg, trigger) ==
  \E k \in 1..Len(reg) : reg[k].trigger = trigger /\ reg[k].run # <<>>

\* this._registry.has(trigger)
has(reg, trigger) == trigger \in Triggers(reg)

\* The position of a trigger's entry in the Map's iteration order.
IndexOf(reg, trigger) == CHOOSE k \in 1..Len(reg) : reg[k].trigger = trigger

\* this._registry.get(trigger), for a trigger the Map has.
get(reg, trigger) == reg[IndexOf(reg, trigger)]

\* The callback list of one phase of an entry.
Phase(entry, op) ==
  CASE op = "setup" -> entry.setup
    [] op = "run" -> entry.run
    [] op = "teardown" -> entry.teardown

\* The entry of a trigger is replaced by a new object: an invocation that
\* holds one of the old entry's arrays keeps that array as it is now.
Detach(reg, is, trigger) ==
  [j \in 1..Len(is) |->
     IF is[j].live /\ is[j].trigger = trigger
     THEN [is[j] EXCEPT !.live = FALSE, !.funcs = Phase(get(reg, trigger), is[j].op)]
     ELSE is[j]]

(***************************************************************************)
(* register                                                                 *)
(***************************************************************************)
\* The field whose check throws, or "" when the bundle passes every check.
ValidationError(plugin) ==
  IF ~isObject(plugin) THEN "plugin"
  ELSE IF ~isString(plugin.name) /\ ~isNullsy(plugin.name) THEN "name"
  ELSE IF ~isString(plugin.desc) /\ ~isNullsy(plugin.desc) THEN "desc"
  ELSE IF ~isString(plugin.version) /\ ~isNullsy(plugin.version) THEN "version"
  ELSE IF ~isString(plugin.trigger) THEN "trigger"
  ELSE IF ~isNullsy(plugin.position)
          /\ plugin.position \notin {Str("before"), Str("clear"), Str("after")}
       THEN "position"
  ELSE IF Truthy(plugin.setup) /\ ~AllFunctions(plugin.setup) THEN "setup"
  ELSE IF ~AllFunctions(plugin.run) THEN "run"
  ELSE IF Truthy(plugin.teardown) /\ ~AllFunctions(plugin.teardown) THEN "teardown"
  ELSE ""

\* handlers = { setup: [], run: [], teardown: [] } set under a new trigger.
EmptyHandlers(trigger) ==
  [trigger |-> trigger, setup |-> <<>>, run |-> <<>>, teardown |-> <<>>]

\* if (!handlers) { ...; this._registry.set(trigger, handlers) }
Ensure(reg, trigger) ==
  IF has(reg, trigger) THEN reg ELSE Append(reg, EmptyHandlers(trigger))

UnshiftAtEnd(h, plugin) ==
  [h EXCEPT !.setup = Append(@, plugin.setup),
            !.run = Append(@, plugin.run),
            !.teardown = Append(@, plugin.teardown)]

UnshiftButTeardown(h, plugin) ==
  [h EXCEPT !.setup = <<plugin.setup>> \o @,
            !.run = <<plugin.run>> \o @,
            !.teardown = Append(@, plugin.teardown)]

\* case 'before': unshift on the three arrays of the entry.
Unshift(h, plugin) ==
  [h EXCEPT !.setup = <<plugin.setup>> \o @,
            !.run = <<plugin.run>> \o @,
            !.teardown = <<plugin.teardown>> \o @]

ClearedKeepsOld(h, plugin) ==
  [h EXCEPT !.setup = Append(@, plugin.setup),
            !.run = Append(@, plugin.run),
            !.teardown = Append(@, plugin.teardown)]

\* case 'clear': a new entry holding this bundle alone.
Cleared(h, plugin) ==
  [h EXCEPT !.setup = <<plugin.setup>>,
            !.run = <<plugin.run>>,
            !.teardown = <<plugin.teardown>>]

PushAtFront(h, plugin) ==
  [h EXCEPT !.setup = <<plugin.setup>> \o @,
            !.run = <<plugin.run>> \o @,
            !.teardown = <<plugin.teardown>> \o @]

\* default: push on the three arrays of the entry.
Push(h, plugin) ==
  [h EXCEPT !.setup = Append(@, plugin.setup),
            !.run = Append(@, plugin.run),
            !.teardown = Append(@, plugin.teardown)]

\* switch (position) on a validated bundle.
Place(h, plugin) ==
  IF plugin.position = Str("before") THEN Unshift(h, plugin)
  ELSE IF plugin.position = Str("clear") THEN Cleared(h, plugin)
  ELSE Push(h, plugin)

registerOneEntryFirst(st, plugin) ==
  LET err == ValidationError(plugin) IN
  IF err # "" THEN
    IF isObject(plugin) /\ isString(plugin.trigger)
    THEN [st EXCEPT !.error = err, !.registry = Ensure(@, plugin.trigger.s)]
    ELSE [st EXCEPT !.error = err]
  ELSE
    LET trg == plugin.trigger.s
        reg1 == Ensure(st.registry, trg)
        k == IndexOf(reg1, trg)
    IN [st EXCEPT
          !.registry = [reg1 EXCEPT ![k] = Place(@, plugin)],
          !.invs = IF plugin.position = Str("clear")
                   THEN Detach(reg1, st.invs, trg) ELSE st.invs,
          !.regs = Append(@, plugin),
          !.done = @ + 1]

registerOneClearMovesKey(st, plugin) ==
  LET err == ValidationError(plugin) IN
  IF err # "" THEN [st EXCEPT !.error = err]
  ELSE
    LET trg == plugin.trigger.s
        reg1 == Ensure(st.registry, trg)
        k == IndexOf(reg1, trg)
    IN [st EXCEPT
          !.registry = IF plugin.position = Str("clear")
                       THEN Append(SubSeq(reg1, 1, k - 1) \o SubSeq(reg1, k + 1, Len(reg1)),
                                   Place(reg1[k], plugin))
                       ELSE [reg1 EXCEPT ![k] = Place(@, plugin)],
          !.invs = IF plugin.position = Str("clear")
                   THEN Detach(reg1, st.invs, trg) ELSE st.invs,
          !.regs = Append(@, plugin),
          !.done = @ + 1]

\* The body of plugins.forEach for one bundle: st holds the registry, the
\* suspended invocations and the history; a bundle that fails a check throws
\* (st.error names the field) and leaves the rest of st as it was.
registerOne(st, plugin) ==
  LET err == ValidationError(plugin) IN
  IF err # "" THEN [st EXCEPT !.error = err]
  ELSE
    LET trg == plugin.trigger.s
        reg1 == Ensure(st.registry, trg)
        k == IndexOf(reg1, trg)
    IN [st EXCEPT
          !.registry = [reg1 EXCEPT ![k] = Place(@, plugin)],
          !.invs = IF plugin.position = Str("clear")
                   THEN Detach(reg1, st.invs, trg) ELSE st.invs,
          !.regs = Append(@, plugin),
          !.done = @ + 1]

RECURSIVE registerAll(_, _)
registerAll(st, plugins) ==
  IF plugins = <<>> THEN st
  ELSE registerAll(registerOne(st, Head(plugins)), Tail(plugins))

registerEachAllOrNothing(st, plugins) ==
  IF \E x \in 1..Len(plugins) : ValidationError(plugins[x]) # ""
  THEN LET x == CHOOSE x \in 1..Len(plugins) :
                  /\ ValidationError(plugins[x]) # ""
                  /\ \A y \in 1..(x - 1) : ValidationError(plugins[y]) = ""
       IN [st EXCEPT !.error = ValidationError(plugins[x])]
  ELSE registerAll(st, plugins)

\* plugins.forEach(...): bundles are processed in order until one throws.
RECURSIVE registerEach(_, _)
registerEach(st, plugins) ==
  IF plugins = <<>> \/ st.error # "" THEN st
  ELSE registerEach(registerOne(st, Head(plugins)), Tail(plugins))

\* register(plugins): a single bundle is treated as a sequence of one.
register(reg, is, rs, plugins) ==
  registerEach([registry |-> reg, invs |-> is, regs |-> rs, error |-> "", done |-> 0],
               AsList(plugins))

(***************************************************************************)
(* Callbacks.  A callback is named; what it returns and which properties it *)
(* writes are fixed by its name.  Objects are modelled by the set of their  *)
(* property names.                                                          *)
(***************************************************************************)
\* The run callbacks of src/test/order.test.js are `() => run.push(name)`:
\* each appends to the array `run` of the test file.
Pushes(f) == f \in {"default.run", "before.run", "clear.run", "after.run"}

\* The value a run callback returns for the accumulator it receives; a
\* callback that pushes returns what Array.push returns, the new length of the
\* array, n being its length when the callback is called.
Returns(f, accumulator, n) ==
  CASE Pushes(f) -> Num(n + 1)
    [] f \in {"f1", "outer.first"} -> Str("a")
    [] f = "inner.first" -> accumulator
    [] f = "f2" -> Str("b")
    [] f = "f3" -> accumulator
    [] f = "fnull" -> Null
    [] OTHER -> Undefined

\* The trigger a run callback runs itself, returning the promise of
\* pluginsContext.plugins.run(trigger, data), or "".
Nests(f) == IF f = "nest" THEN "inner" ELSE ""

\* The bundle a run callback registers under its own trigger through
\* pluginsContext.plugins.register(bundle) before it returns, or undefined.
Added(position) ==
  Plugin(Str("grow"), Str(position), Fn("noop"), Fn("added.run"), Fn("noop"))
Registers(f) ==
  CASE f = "register.before" -> Added("before")
    [] f = "register.after" -> Added("after")
    [] f = "register.clear" -> Added("clear")
    [] OTHER -> Undefined

\* How a callback ends: it returns (or its promise fulfils), it throws
\* while it is called, or the promise it returns rejects.  The first setup
\* and teardown callbacks of the example take (options, pluginsContext,
\* pluginContext) and are called with two arguments: their third parameter is
\* undefined and `pluginContext.fromSetup1 = 2` throws a TypeError.
Fails(f) ==
  CASE f \in {"setup.throws", "run.throws", "teardown.throws"} -> "throws"
    [] f \in {"pair.setup1", "pair.teardown1"} -> "throws"
    [] f \in {"setup.rejects", "run.rejects", "teardown.rejects"} -> "rejects"
    [] OTHER -> "no"

\* The error a failing callback throws or rejects with.
ErrorOf(f) ==
  IF f \in {"pair.setup1", "pair.teardown1"} THEN "TypeError" ELSE "Thrown"

\* pluginsContext.options.<p> = ... in the callback's body.
WritesOptions(f) ==
  CASE f = "basic.setup" -> {"setups"}
    [] f = "basic.run" -> {"runs"}
    [] f = "basic.teardown" -> {"teardowns"}
    [] OTHER -> {}

\* Properties the callback's body sets on the object it is passed as the
\* shared context.  The example's setup1 and teardown1 set none: the
\* parameter they name pluginsContext receives the per-trigger context.
WritesShared(f) ==
  CASE f = "pair.run1" -> {"fromRun1"}
    [] f = "share.setup1" -> {"sharedSetup"}
    [] f = "share.teardown1" -> {"sharedTeardown"}
    [] f = "outer.first" -> {"outerRan"}
    [] f = "inner.first" -> {"innerRan"}
    [] OTHER -> {}

\* Properties the callback's body sets on the object it is passed as the
\* per-trigger, per-invocation context, before it throws if it does.
WritesLocal(f) ==
  CASE f = "basic.setup" -> {"faz1"}
    [] f = "basic.run" -> {"faz2"}
    [] f = "basic.teardown" -> {"faz3"}
    [] f = "pair.setup1" -> {"fromSetup1"}
    [] f = "pair.run1" -> {"fromRun1"}
    [] f = "pair.teardown1" -> {"fromTeardown1"}
    [] f = "share.setup1" -> {"localSetup"}
    [] f = "share.teardown1" -> {"localTeardown"}
    [] f = "outer.first" -> {"fromOuter"}
    [] f = "inner.first" -> {"fromInner"}
    [] OTHER -> {}

(***************************************************************************)
(* Invocations of the async methods.  An invocation that reached an await   *)
(* is kept in invs; one that ended is reported in last.                     *)
(***************************************************************************)
\* The record of an operation: its locals (trigger, pluginContext, the
\* callback array and its captured length, i, accumulator), the callbacks it
\* has called and not yet seen complete (inflight), how the promise it awaits
\* settles, with which value (returned) or error (reason), what it has
\* called so far (called), for which trigger (calledFor), with which
\* accumulator (accIn), with which properties on the shared context, on its
\* options and on pluginContext (sawShared, sawOptions, sawLocal) and with
\* which length of the test's array (sawPushed), whether a callback started it
\* (nested), the place in invs of the run the callback it awaits started and
\* returned the promise of (waits, 0 for none), the bundles its callbacks
\* registered, and how it ended.
Operation(op, arg) ==
  [op |-> op, arg |-> arg, status |-> "pending", value |-> Undefined, error |-> "",
   trigger |-> "", k |-> 0, live |-> FALSE, funcs |-> <<>>, length |-> 0, i |-> 0,
   accumulator |-> Undefined, pluginContext |-> {}, returned |-> Undefined,
   settles |-> "fulfilled", reason |-> "", inflight |-> <<>>,
   called |-> <<>>, accIn |-> <<>>, calledFor |-> <<>>,
   sawShared |-> <<>>, sawOptions |-> <<>>, sawLocal |-> <<>>, sawPushed |-> <<>>,
   nested |-> FALSE, waits |-> 0, registered |-> <<>>,
   nregs |-> 0, flat |-> FALSE, done |-> 0]

\* F of the value of x.
Of(x, F(_)) == CHOOSE r \in {F(v) : v \in {x}} : TRUE

\* The array an invocation iterates: the entry's own array while the entry
\* is still the one in the Map, else the array as it was when replaced.
Funcs(reg, inv) ==
  IF inv.live THEN Phase(get(reg, inv.trigger), inv.op) ELSE inv.funcs

\* What a method works on, everything a callback can reach included: the
\* registry, the shared context and its options, the test's array, the
\* suspended invocations, and the history.
World(reg, ctx, opts, n, is, rs, at) ==
  [registry |-> reg, pluginsContext |-> ctx, options |-> opts, pushed |-> n,
   invs |-> is, regs |-> rs, setupAt |-> at]

\* The state of a step: the world, the place `self` of the invocation that
\* takes the step among the invocations, and that invocation as the step has
\* changed it so far.
Step(w, self, inv) ==
  [registry |-> w.registry, pluginsContext |-> w.pluginsContext, options |-> w.options,
   pushed |-> w.pushed, regs |-> w.regs, setupAt |-> w.setupAt,
   invs |-> IF self > Len(w.invs) THEN Append(w.invs, inv) ELSE w.invs,
   self |-> self, inv |-> inv]

\* A method is called: its invocation takes the place behind those in
\* progress.  History: the registrations made so far, and whether setup()
\* has flattened them all.
Begin(w, op, arg) ==
  LET New(v) == Step(v, Len(v.invs) + 1,
                     [Operation(op, arg) EXCEPT !.nregs = Len(v.regs),
                                                !.flat = (v.setupAt = Len(v.regs))])
  IN Of(w, New)

\* The invocations with the one taking the step as it is now.
Sync(st) == [st EXCEPT !.invs[st.self] = st.inv]

\* An invocation has ended: those behind it move up one place.
Remove(is, j) ==
  [x \in 1..(Len(is) - 1) |->
     LET o == IF x < j THEN is[x] ELSE is[x + 1]
     IN [o EXCEPT !.waits = IF @ > j THEN @ - 1 ELSE @]]

CalledWithCopy(st, f) ==
  [st EXCEPT
     !.options = @ \cup WritesOptions(f),
     !.pushed = IF Pushes(f) THEN @ + 1 ELSE @,
     !.inv.pluginContext = @ \cup WritesLocal(f),
     !.inv.called = Append(@, f),
     !.inv.calledFor = Append(@, st.inv.trigger),
     !.inv.accIn = Append(@, st.inv.accumulator),
     !.inv.sawShared = Append(@, st.pluginsContext),
     !.inv.sawOptions = Append(@, st.options),
     !.inv.sawLocal = Append(@, st.inv.pluginContext),
     !.inv.sawPushed = Append(@, st.pushed)]

CalledOnOneContext(st, f) ==
  [st EXCEPT
     !.pluginsContext = @ \cup WritesShared(f),
     !.options = @ \cup WritesOptions(f),
     !.pushed = IF Pushes(f) THEN @ + 1 ELSE @,
     !.invs = [x \in 1..Len(st.invs) |->
                 [st.invs[x] EXCEPT !.pluginContext = @ \cup WritesLocal(f)]],
     !.inv.pluginContext = @ \cup WritesLocal(f),
     !.inv.called = Append(@, f),
     !.inv.calledFor = Append(@, st.inv.trigger),
     !.inv.accIn = Append(@, st.inv.accumulator),
     !.inv.sawShared = Append(@, st.pluginsContext),
     !.inv.sawOptions = Append(@, st.options),
     !.inv.sawLocal = Append(@, st.inv.pluginContext),
     !.inv.sawPushed = Append(@, st.pushed)]

\* The callback is called with this._pluginsContext and pluginContext: what
\* it is passed is noted and its writes are made.
Called(st, f) ==
  [st EXCEPT
     !.pluginsContext = @ \cup WritesShared(f),
     !.options = @ \cup WritesOptions(f),
     !.pushed = IF Pushes(f) THEN @ + 1 ELSE @,
     !.inv.pluginContext = @ \cup WritesLocal(f),
     !.inv.called = Append(@, f),
     !.inv.calledFor = Append(@, st.inv.trigger),
     !.inv.accIn = Append(@, st.inv.accumulator),
     !.inv.sawShared = Append(@, st.pluginsContext),
     !.inv.sawOptions = Append(@, st.options),
     !.inv.sawLocal = Append(@, st.inv.pluginContext),
     !.inv.sawPushed = Append(@, st.pushed)]

\* The callback calls pluginsContext.plugins.register(bundle) and returns
\* undefined: the running invocation is among those that hold an array of the
\* registry.  A register that throws makes the callback throw.
RegistersIn(st, f) ==
  LET r == register(st.registry, Sync(st).invs, st.regs, Registers(f))
      c == [st EXCEPT
              !.registry = r.registry, !.invs = r.invs, !.regs = r.regs,
              !.inv = [r.invs[st.self] EXCEPT
                         !.registered = @ \o SubSeq(r.regs, Len(st.regs) + 1, Len(r.regs))]]
  IN IF r.error # ""
     THEN [c EXCEPT !.inv.status = "rejected", !.inv.error = "Error"]
     ELSE [c EXCEPT !.inv.inflight = Append(@, f), !.inv.returned = Undefined,
                    !.inv.settles = "fulfilled", !.inv.reason = ""]

RECURSIVE run(_, _, _)

\* The callback calls pluginsContext.plugins.run(trigger, data) and returns
\* its promise.  The run it starts goes up to its first await, the calling
\* invocation being one of those in progress; the callback's promise settles
\* as that run's does: when the run has ended if it is suspended, else at
\* once, with its value or its error.
NestsIn(st, f) ==
  LET Outcome(c) ==
        LET inner == [c.inv EXCEPT !.nested = TRUE]
            outer == [c.invs[st.self] EXCEPT !.inflight = Append(@, f)]
        IN IF inner.status = "pending"
           THEN [c EXCEPT !.invs[c.self] = inner, !.self = st.self,
                          !.inv = [outer EXCEPT !.waits = c.self]]
           ELSE [c EXCEPT !.invs = Remove(c.invs, c.self), !.self = st.self,
                          !.inv = [outer EXCEPT
                                     !.returned = inner.value,
                                     !.settles = IF inner.status = "rejected"
                                                 THEN "rejected" ELSE "fulfilled",
                                     !.reason = inner.error]]
  IN Of(run(Sync(st), Nests(f), Str("data")), Outcome)

\* await (funcs[i](...)): the callback is called and the invocation suspends
\* until the promise of the callback has settled; calling a value that is no
\* function throws a TypeError and a callback may throw itself, which rejects.
CallAt(st) ==
  LET inv == st.inv
      func == Funcs(st.registry, inv)[inv.i + 1]
  IN IF ~isFunction(func)
     THEN [st EXCEPT !.inv.status = "rejected", !.inv.error = "TypeError"]
     ELSE IF Fails(func.f) = "throws"
     THEN [Called(st, func.f) EXCEPT !.inv.status = "rejected",
                                     !.inv.error = ErrorOf(func.f)]
     ELSE IF Nests(func.f) # ""
     THEN NestsIn(Called(st, func.f), func.f)
     ELSE IF Registers(func.f) # Undefined
     THEN RegistersIn(Called(st, func.f), func.f)
     ELSE [Called(st, func.f) EXCEPT
             !.inv.inflight = Append(@, func.f),
             !.inv.settles = IF Fails(func.f) = "rejects" THEN "rejected" ELSE "fulfilled",
             !.inv.reason = IF Fails(func.f) = "rejects" THEN ErrorOf(func.f) ELSE "",
             !.inv.returned = IF inv.op = "run"
                              THEN Returns(func.f, inv.accumulator, st.pushed)
                              ELSE Undefined]

\* The first entry at or after position k of the Map whose array for the
\* phase is not empty, or Len(reg) + 1: `if (length)` skips the others.
RECURSIVE SeekKey(_, _, _)
SeekKey(reg, op, k) ==
  IF k > Len(reg) THEN k
  ELSE IF Len(Phase(reg[k], op)) > 0 THEN k
  ELSE SeekKey(reg, op, k + 1)

ForOfOneContext(st, k) ==
  LET reg == st.registry
      k1 == SeekKey(reg, st.inv.op, k)
  IN IF k1 > Len(reg)
     THEN [st EXCEPT !.inv.status = "resolved", !.inv.live = FALSE,
                     !.inv.funcs = <<>>, !.inv.k = k1]
     ELSE CallAt([st EXCEPT
             !.inv.k = k1, !.inv.trigger = reg[k1].trigger, !.inv.live = TRUE,
             !.inv.funcs = <<>>, !.inv.length = Len(Phase(reg[k1], st.inv.op)),
             !.inv.i = 0])

\* for (let [trigger, plugin] of this._registry) from position k on, up to
\* the first await: pluginContext = {}, the array and its length are taken
\* for the entry reached, and its first callback is called.
ForOf(st, k) ==
  LET reg == st.registry
      k1 == SeekKey(reg, st.inv.op, k)
  IN IF k1 > Len(reg)
     THEN [st EXCEPT !.inv.status = "resolved", !.inv.live = FALSE,
                     !.inv.funcs = <<>>, !.inv.k = k1]
     ELSE CallAt([st EXCEPT
             !.inv.k = k1, !.inv.trigger = reg[k1].trigger, !.inv.live = TRUE,
             !.inv.funcs = <<>>, !.inv.length = Len(Phase(reg[k1], st.inv.op)),
             !.inv.i = 0, !.inv.pluginContext = {}])

RECURSIVE LoopNoAwait(_)
LoopNoAwait(st) ==
  IF st.inv.i < st.inv.length
  THEN LET c == CallAt(st) IN
       IF c.inv.status = "rejected" THEN c
       ELSE LoopNoAwait([c EXCEPT !.inv.i = @ + 1])
  ELSE IF st.inv.op = "run"
       THEN [st EXCEPT !.inv.status = "resolved", !.inv.value = st.inv.accumulator]
       ELSE ForOf(st, st.inv.k + 1)

\* The loop `for (let i = 0; i < length; i++)` at its test, with i set.
Loop(st) ==
  IF st.inv.i < st.inv.length THEN CallAt(st)
  ELSE IF st.inv.op = "run"
       THEN [st EXCEPT !.inv.status = "resolved", !.inv.value = st.inv.accumulator]
       ELSE ForOf(st, st.inv.k + 1)

ContinueKeepsAccumulator(st) ==
  IF st.inv.settles = "rejected"
  THEN [st EXCEPT !.inv.inflight = Tail(@), !.inv.status = "rejected",
                  !.inv.error = st.inv.reason]
  ELSE Loop([st EXCEPT !.inv.inflight = Tail(@), !.inv.i = @ + 1])

ContinueSwallows(st) ==
  Loop([st EXCEPT
          !.inv.inflight = Tail(@),
          !.inv.accumulator = IF st.inv.op = "run" THEN st.inv.returned ELSE @,
          !.inv.i = @ + 1])

\* The promise of the awaited callback has settled.  If it rejected, the
\* await throws its error and the invocation rejects; else run assigns its
\* value to accumulator, then i++ and the loop goes on.
Continue(st) ==
  IF st.inv.settles = "rejected"
  THEN [st EXCEPT !.inv.inflight = Tail(@), !.inv.status = "rejected",
                  !.inv.error = st.inv.reason]
  ELSE Loop([st EXCEPT
               !.inv.inflight = Tail(@),
               !.inv.accumulator = IF st.inv.op = "run" THEN st.inv.returned ELSE @,
               !.inv.i = @ + 1])

\* The flattening pass of setup(): every entry is replaced by a new one with
\* its three arrays flattened one level.
Flatten(reg) ==
  [k \in 1..Len(reg) |->
     [trigger |-> reg[k].trigger,
      setup |-> flatten1Level(reg[k].setup),
      run |-> flatten1Level(reg[k].run),
      teardown |-> flatten1Level(reg[k].teardown)]]

\* Every suspended invocation keeps the array of the entry setup() replaced.
RECURSIVE DetachAll(_, _, _)
DetachAll(reg, is, k) ==
  IF k > Len(reg) THEN is
  ELSE DetachAll(reg, Detach(reg, is, reg[k].trigger), k + 1)

\* setup() up to its first await.
setup(w) ==
  ForOf(Begin([w EXCEPT !.registry = Flatten(w.registry),
                        !.invs = DetachAll(w.registry, w.invs, 1),
                        !.setupAt = Len(w.regs)],
              "setup", Undefined), 1)

runFromNull(w, trigger, args) ==
  LET st == Begin(w, "run", args) IN
  IF ~has(w.registry, trigger)
  THEN [st EXCEPT !.inv.trigger = trigger, !.inv.status = "rejected", !.inv.error = "Error"]
  ELSE Loop([st EXCEPT !.inv.trigger = trigger, !.inv.pluginContext = {}, !.inv.live = TRUE,
                       !.inv.length = Len(get(w.registry, trigger).run),
                       !.inv.accumulator = Null])

runMissingResolves(w, trigger, args) ==
  LET st == Begin(w, "run", args) IN
  IF ~has(w.registry, trigger)
  THEN [st EXCEPT !.inv.trigger = trigger, !.inv.status = "resolved"]
  ELSE Loop([st EXCEPT !.inv.trigger = trigger, !.inv.pluginContext = {}, !.inv.live = TRUE,
                       !.inv.length = Len(get(w.registry, trigger).run),
                       !.inv.accumulator = Undefined])

runOnSharedContext(w, trigger, args) ==
  LET st == Begin(w, "run", args) IN
  IF ~has(w.registry, trigger)
  THEN [st EXCEPT !.inv.trigger = trigger, !.inv.status = "rejected", !.inv.error = "Error"]
  ELSE Loop([st EXCEPT !.inv.trigger = trigger, !.inv.pluginContext = w.pluginsContext,
                       !.inv.live = TRUE,
                       !.inv.length = Len(get(w.registry, trigger).run),
                       !.inv.accumulator = Undefined])

\* run(trigger, args) up to its first await: a trigger the Map does not have
\* throws, which rejects the promise run returns.
run(w, trigger, args) ==
  LET st == Begin(w, "run", args) IN
  IF ~has(w.registry, trigger)
  THEN [st EXCEPT !.inv.trigger = trigger, !.inv.status = "rejected", !.inv.error = "Error"]
  ELSE Loop([st EXCEPT !.inv.trigger = trigger, !.inv.pluginContext = {}, !.inv.live = TRUE,
                       !.inv.length = Len(get(w.registry, trigger).run),
                       !.inv.accumulator = Undefined])

\* teardown(trigger) up to its first await: the loop variable shadows the
\* parameter, every entry of the Map is visited.
teardown(w, trigger) ==
  ForOf(Begin(w, "teardown", trigger), 1)

(***************************************************************************)
(* The host program: the bundles it registers and the triggers it runs.     *)
(***************************************************************************)
VARIABLE host

allvars == <<vars, host>>

\* src/test/order.test.js, pluginsLibr: four bundles under one trigger, each
\* with one setup and one run callback and no teardown.
LibrDefault == Plugin(Str("test"), Undefined, Fn("default.setup"), Fn("default.run"), Undefined)
LibrBefore == Plugin(Str("test"), Str("before"), Fn("before.setup"), Fn("before.run"), Undefined)
LibrClear == Plugin(Str("test"), Str("clear"), Fn("clear.setup"), Fn("clear.run"), Undefined)
LibrAfter == Plugin(Str("test"), Str("after"), Fn("after.setup"), Fn("after.run"), Undefined)

\* src/test/basic.test.js: one bundle with the three callbacks.
BasicPlugin ==
  Plugin(Str("test"), Undefined, Fn("basic.setup"), Fn("basic.run"), Fn("basic.teardown"))

\* The example's bundle (two callbacks per phase) as the example writes it, with
\* a name and no trigger, and the same bundle with a trigger.
ExamplePlugin ==
  Described(Plugin(Undefined, Undefined,
                   Arr(<<Fn("pair.setup1"), Fn("pair.setup2")>>),
                   Arr(<<Fn("pair.run1"), Fn("pair.run2")>>),
                   Arr(<<Fn("pair.teardown1"), Fn("pair.teardown2")>>)),
            Str("sendResetPwd"), Undefined, Str("1.0.0"))
PairPlugin == [ExamplePlugin EXCEPT !.trigger = Str("sendResetPwd")]

\* A bundle of two callbacks per phase whose first setup and teardown
\* callbacks take (pluginsContext, pluginContext) and write to both.
SharePlugin ==
  Plugin(Str("share"), Undefined,
         Arr(<<Fn("share.setup1"), Fn("share.setup2")>>),
         Fn("share.run"),
         Arr(<<Fn("share.teardown1"), Fn("share.teardown2")>>))

\* Bundles whose run callbacks return 'a', 'b', their accumulator and null,
\* singly and as a sequence, and a bundle whose run is an empty sequence.
AccA == Plugin(Str("acc"), Undefined, Fn("noop"), Fn("f1"), Fn("noop"))
AccB == Plugin(Str("acc"), Str("after"), Fn("noop"), Fn("f2"), Fn("noop"))
AccSame == Plugin(Str("acc"), Str("before"), Fn("noop"), Fn("f3"), Fn("noop"))
AccNull == Plugin(Str("acc"), Str("clear"), Fn("noop"), Fn("fnull"), Fn("noop"))
AccList == Plugin(Str("acc"), Null, Fn("noop"),
                  Arr(<<Fn("f1"), Fn("f2"), Fn("f3")>>), Fn("noop"))
AccEmpty == Plugin(Str("acc"), Str("clear"), Arr(<<>>), Arr(<<>>), Arr(<<>>))

\* Two triggers whose bundles supply or omit the optional callbacks.
OneFull == Plugin(Str("one"), Undefined, Fn("one.setup"), Fn("one.run"), Fn("one.teardown"))
OneBare == Plugin(Str("one"), Str("before"), Undefined, Fn("bare.run"), Undefined)
TwoFull == Plugin(Str("two"), Undefined, Fn("two.setup"), Fn("two.run"),
                  Arr(<<Fn("two.teardown1"), Fn("two.teardown2")>>))
TwoNoTeardown == Plugin(Str("two"), Str("after"), Fn("late.setup"), Fn("late.run"), Undefined)
OneClear == Plugin(Str("one"), Str("clear"), Fn("cleared.setup"), Fn("cleared.run"),
                   Fn("cleared.teardown"))

\* Bundles one of whose callbacks throws or rejects, after a callback that
\* writes to the shared context and before one that would.
SetupThrows ==
  Plugin(Str("one"), Undefined,
         Arr(<<Fn("share.setup1"), Fn("setup.throws"), Fn("share.setup2")>>),
         Fn("one.run"), Fn("one.teardown"))
RunRejects ==
  Plugin(Str("one"), Str("before"), Fn("one.setup"),
         Arr(<<Fn("pair.run1"), Fn("run.rejects"), Fn("pair.run2")>>),
         Fn("one.teardown"))
TeardownRejects ==
  Plugin(Str("one"), Str("after"), Fn("one.setup"), Fn("one.run"),
         Arr(<<Fn("share.teardown1"), Fn("teardown.rejects"), Fn("share.teardown2")>>))
TwoFails ==
  Plugin(Str("two"), Str("before"), Fn("setup.rejects"), Fn("run.throws"),
         Fn("teardown.throws"))

\* Arguments register must reject.
BadPlugins ==
  { Undefined, Null, Str("plugin"), Num(7), Fn("f1"), Arr(<<AccA>>),
    ExamplePlugin,
    [AccA EXCEPT !.trigger = Num(1)],
    [AccA EXCEPT !.trigger = Null],
    [AccA EXCEPT !.position = Str("sideways")],
    [AccA EXCEPT !.position = Num(0)],
    [AccA EXCEPT !.position = Bool(FALSE)],
    [AccA EXCEPT !.run = Undefined],
    [AccA EXCEPT !.run = Null],
    [AccA EXCEPT !.run = Str("f1")],
    [AccA EXCEPT !.run = Arr(<<Fn("f1"), Undefined>>)],
    [AccA EXCEPT !.setup = Str("noop")],
    [AccA EXCEPT !.setup = Arr(<<Num(0)>>)],
    [AccA EXCEPT !.teardown = Num(1)],
    [AccA EXCEPT !.teardown = Arr(<<Fn("noop"), Null>>)],
    [AccA EXCEPT !.name = Num(1)],
    [AccA EXCEPT !.desc = Bool(TRUE)],
    [AccA EXCEPT !.version = Num(1)] }

\* Bundles shaped as those of order.test.js whose callbacks do nothing.
PlainDefault == Plugin(Str("test"), Undefined, Fn("plain.setup"), Fn("plain.run"), Undefined)
PlainBefore == [PlainDefault EXCEPT !.position = Str("before")]
PlainClear == [PlainDefault EXCEPT !.position = Str("clear")]
PlainAfter == [PlainDefault EXCEPT !.position = Str("after")]

\* Bundles whose setup or teardown is a falsy value that is no function.
FalsyPlugins ==
  { [PlainDefault EXCEPT !.setup = Num(0)],
    [PlainAfter EXCEPT !.teardown = Bool(FALSE)],
    [PlainBefore EXCEPT !.setup = Str("")] }

Hosts == {"order", "basic", "accumulator", "optional", "invalid", "failing"}

\* What the host passes to register: one bundle, or a sequence of bundles.
RegisterArgs(h) ==
  CASE h = "order" -> {LibrDefault, LibrBefore, LibrClear, LibrAfter}
    [] h = "basic" -> {Arr(<<BasicPlugin>>), Arr(<<PairPlugin>>), SharePlugin, Arr(<<>>)}
    [] h = "accumulator" -> {AccA, AccB, AccSame, AccNull, AccList, AccEmpty}
    [] h = "optional" -> {OneFull, OneBare, TwoFull, TwoNoTeardown, OneClear}
    [] h = "failing" -> {SetupThrows, RunRejects, TeardownRejects, TwoFull, TwoFails}
    [] h = "invalid" ->
         {Arr(<<b>>) : b \in BadPlugins} \cup FalsyPlugins
         \cup {PlainDefault, Arr(<<PlainAfter, [AccA EXCEPT !.run = Undefined]>>),
               Arr(<<PlainClear, [AccA EXCEPT !.trigger = Null], AccB>>),
               Arr(<<Str("plugin"), PlainBefore>>)}

\* The triggers the host passes to has, run and teardown.
HostTriggers(h) ==
  CASE h = "order" -> {"test", "missing"}
    [] h = "basic" -> {"test", "sendResetPwd", "share"}
    [] h = "accumulator" -> {"acc", "missing"}
    [] h = "optional" -> {"one", "two"}
    [] h = "failing" -> {"one", "two"}
    [] h = "invalid" -> {"test", "acc"}

MaxRegs == 4

\* How many bundles a host registers: the order host up to MaxRegs, as its
\* longest test needs, the hosts with more to choose from fewer.
Budget(h) ==
  CASE h = "order" -> MaxRegs
    [] h = "invalid" -> MaxRegs - 2
    [] OTHER -> MaxRegs - 1

MaxPushed == 5

\* How many of the callbacks of a list push to the test's array.
RECURSIVE PushCount(_)
PushCount(values) ==
  IF values = <<>> THEN 0
  ELSE (IF isFunction(Head(values)) /\ Pushes(Head(values).f) THEN 1 ELSE 0)
       + PushCount(Tail(values))

\* The host may issue a call: like the tests, these hosts await every call
\* before they issue the next one.
MayCall == invs = <<>>

\* Like the tests of order.test.js, the order host registers a bundle of
\* pluginsLibr once.
MayRegister(plugins) ==
  host = "order" => \A x \in 1..Len(regs) : regs[x] # plugins

\* The host runs a trigger while the test's array stays within MaxPushed.
MayRun(trigger) ==
  has(registry, trigger)
    => pushed + PushCount(get(registry, trigger).run) <= MaxPushed

\* No operation ended in this step.
Nothing == Operation("none", Undefined)

(***************************************************************************)
(* Actions.                                                                 *)
(***************************************************************************)
\* new Plugins(pluginsContext) with the tests' seed { options: { init } }.
constructorNoClone(seedObject) ==
  [_pluginsContext |-> seedObject \cup {"plugins"}, seed |-> seedObject \cup {"plugins"}]

\* new Plugins(pluginsContext): this._pluginsContext is a new object with the
\* properties of the argument, to which plugins is added; the argument keeps
\* the properties it has.  An object is the set of its property names; the
\* copied options property refers to the one object `options`.
constructor(seedObject) ==
  [_pluginsContext |-> seedObject \cup {"plugins"}, seed |-> seedObject]

\* beforeEach of the tests: a new registry on the seed, the arrays empty.
Init ==
  /\ host \in Hosts
  /\ registry = <<>>
  /\ seed = constructor({"options"}).seed
  /\ options = {"init"}
  /\ pluginsContext = constructor({"options"})._pluginsContext
  /\ invs = <<>>
  /\ last = Operation("new", Undefined)
  /\ regs = <<>>
  /\ setupAt = -1
  /\ pushed = 0

\* The world as it is now.
Now == World(registry, pluginsContext, options, pushed, invs, regs, setupAt)

\* The run a callback started, the one at place j, has ended: the promise the
\* callback returned settles with its value, or rejects with its error, for
\* the invocation that awaits that callback.
Completes(is, j, inner) ==
  [x \in 1..Len(is) |->
     IF is[x].waits = j
     THEN [is[x] EXCEPT !.waits = 0, !.returned = inner.value,
                        !.settles = IF inner.status = "rejected"
                                    THEN "rejected" ELSE "fulfilled",
                        !.reason = inner.error]
     ELSE is[x]]

\* An async method ran up to an await, or to its end.
Settle(st) ==
  /\ registry' = st.registry
  /\ pluginsContext' = st.pluginsContext
  /\ options' = st.options
  /\ pushed' = st.pushed
  /\ regs' = st.regs
  /\ setupAt' = st.setupAt
  /\ IF st.inv.status = "pending"
     THEN /\ invs' = Sync(st).invs
          /\ last' = Nothing
     ELSE /\ invs' = Remove(Completes(st.invs, st.self, st.inv), st.self)
          /\ last' = st.inv

Register(plugins) ==
  LET st == register(registry, invs, regs, plugins) IN
  /\ MayCall
  /\ MayRegister(plugins)
  /\ Len(st.regs) <= Budget(host)
  /\ registry' = st.registry
  /\ invs' = st.invs
  /\ regs' = st.regs
  /\ last' = [Operation("register", plugins) EXCEPT
                !.status = IF st.error = "" THEN "returned" ELSE "threw",
                !.error = st.error, !.done = st.done]
  /\ UNCHANGED <<pluginsContext, options, seed, setupAt, pushed, host>>

Has(trigger) ==
  /\ MayCall
  /\ last' = [Operation("has", Str(trigger)) EXCEPT
                !.status = "returned", !.value = Bool(has(registry, trigger))]
  /\ UNCHANGED <<registry, pluginsContext, options, seed, invs, regs, setupAt, pushed, host>>

Setup ==
  /\ MayCall
  /\ Settle(setup(Now))
  /\ UNCHANGED <<seed, host>>

Run(trigger, args) ==
  /\ MayCall
  /\ MayRun(trigger)
  /\ Settle(run(Now, trigger, args))
  /\ UNCHANGED <<seed, host>>

Teardown(trigger) ==
  /\ MayCall
  /\ Settle(teardown(Now, trigger))
  /\ UNCHANGED <<seed, host>>

\* The promise invocation j awaits has settled.
Resume(j) ==
  /\ invs[j].waits = 0
  /\ Settle(Continue(Step(Now, j, invs[j])))
  /\ UNCHANGED <<seed, host>>

Next ==
  \/ \E plugins \in RegisterArgs(host) : Register(plugins)
  \/ \E trigger \in HostTriggers(host) : Has(trigger)
  \/ Setup
  \/ \E trigger \in HostTriggers(host) : Run(trigger, Str("data"))
  \/ \E trigger \in {Undefined} \cup {Str(x) : x \in HostTriggers(host)} : Teardown(trigger)
  \/ \E j \in 1..Len(invs) : Resume(j)

Spec == Init /\ [][Next]_allvars

(***************************************************************************)
(* What the claims speak of.                                                *)
(***************************************************************************)
\* The operations in sight: the suspended ones and the one that just ended.
Ops == {invs[j] : j \in 1..Len(invs)} \cup {last}

IsPrefix(a, b) == Len(a) <= Len(b) /\ a = SubSeq(b, 1, Len(a))

\* The order of the bundles of a trigger as the registration policy states
\* it, as indices into the history: 'before' goes ahead of the bundles there,
\* 'clear' discards them, anything else goes behind them.
RECURSIVE PolicyOrder(_, _, _)
PolicyOrder(rs, n, trigger) ==
  IF n = 0 THEN <<>>
  ELSE LET earlier == PolicyOrder(rs, n - 1, trigger) IN
       IF rs[n].trigger # Str(trigger) THEN earlier
       ELSE IF rs[n].position = Str("before") THEN <<n>> \o earlier
       ELSE IF rs[n].position = Str("clear") THEN <<n>>
       ELSE Append(earlier, n)

\* The callbacks the bundles at the given indices supplied for a phase, one
\* after the other, a bundle's own callbacks in the order it gave them.
RECURSIVE Supplied(_, _, _)
Supplied(rs, order, op) ==
  IF order = <<>> THEN <<>>
  ELSE AsList(Phase(rs[Head(order)], op)) \o Supplied(rs, Tail(order), op)

\* The names of the functions at the head of a list of values, up to the
\* first value that is no function.
RECURSIVE LeadingNames(_)
LeadingNames(values) ==
  IF values = <<>> \/ ~isFunction(Head(values)) THEN <<>>
  ELSE <<Head(values).f>> \o LeadingNames(Tail(values))

\* An operation called the functions of `values` in order, as far as it got:
\* all of them when it resolved.
CalledInOrder(o, values) ==
  /\ IsPrefix(o.called, LeadingNames(values))
  /\ o.status = "resolved" => o.called = LeadingNames(values) /\ Len(o.called) = Len(values)
  /\ o.status = "rejected" => o.called = LeadingNames(values) /\ Len(o.called) < Len(values)

\* None of the first n registered bundles supplied a callback that throws or
\* rejects.
NoneFails(n) ==
  \A x \in 1..n : \A op \in {"setup", "run", "teardown"} :
    LET values == AsList(Phase(regs[x], op)) IN
    \A y \in 1..Len(values) : isFunction(values[y]) => Fails(values[y].f) = "no"

\* The registrations an operation started after were all made under the one
\* trigger, with positions among those given and callbacks that complete.
OneTrigger(o, trigger, positions) ==
  /\ o.nregs > 0 /\ NoneFails(o.nregs)
  /\ \A x \in 1..o.nregs : regs[x].trigger = Str(trigger) /\ regs[x].position \in positions

After == {Undefined, Null, Str("after")}

\* C1: after register calls under one trigger that all use 'after' or no
\* position, followed by setup(), run(trigger) invokes the run callbacks of
\* the bundles in registration order, each bundle's callbacks in its own
\* order, and resolves.
C1_RegistrationOrder ==
  \A o \in Ops : \A trigger \in HostTriggers(host) :
    (o.op = "run" /\ o.flat /\ o.trigger = trigger /\ OneTrigger(o, trigger, After))
    => /\ CalledInOrder(o, Supplied(regs, [x \in 1..o.nregs |-> x], "run"))
       /\ o.status # "rejected"

C1_Witness ==
  /\ last.op = "run" /\ last.status = "resolved" /\ last.flat
  /\ OneTrigger(last, "acc", After)
  /\ regs = <<AccA, AccList, AccB>>
  /\ last.called = <<"f1", "f1", "f2", "f3", "f2">>

\* C2: 'before' places a bundle ahead of the bundles registered under the
\* trigger, 'after' or no position behind them, the same for setup() and
\* for run(trigger); B1 (after), B2 (before), B3 (after) run as B2, B1, B3.
C2_BeforeAfter ==
  \A o \in Ops : \A trigger \in HostTriggers(host) :
    (o.op \in {"setup", "run"} /\ o.flat
     /\ (o.op = "run" => o.trigger = trigger)
     /\ OneTrigger(o, trigger, After \cup {Str("before")}))
    => /\ CalledInOrder(o, Supplied(regs, PolicyOrder(regs, o.nregs, trigger), o.op))
       /\ (o.nregs = 3 /\ SubSeq(regs, 1, 3) = <<LibrDefault, LibrBefore, LibrAfter>>
           /\ o.status = "resolved")
          => o.called = IF o.op = "setup"
                        THEN <<"before.setup", "default.setup", "after.setup">>
                        ELSE <<"before.run", "default.run", "after.run">>

C2_Witness ==
  /\ regs = <<LibrDefault, LibrBefore, LibrAfter>>
  /\ setupAt = 3
  /\ last.op = "run" /\ last.status = "resolved"
  /\ last.called = <<"before.run", "default.run", "after.run">>

\* C3: 'clear' discards the bundles registered under the trigger before it
\* and the clearing bundle becomes the first one; B1, B2 (before), B3 (clear),
\* B4 (after) run as B3, B4 in setup() and run(trigger), and no callback of
\* B1 or B2 is invoked.
C3_ClearResets ==
  \A o \in Ops : \A trigger \in HostTriggers(host) :
    (o.op \in {"setup", "run"} /\ o.flat
     /\ (o.op = "run" => o.trigger = trigger)
     /\ OneTrigger(o, trigger, After \cup {Str("before"), Str("clear")})
     /\ \E c \in 1..o.nregs : regs[c].position = Str("clear"))
    => LET c == CHOOSE c \in 1..o.nregs :
                  /\ regs[c].position = Str("clear")
                  /\ \A d \in (c + 1)..o.nregs : regs[d].position # Str("clear")
           kept == PolicyOrder(regs, o.nregs, trigger)
       IN /\ CalledInOrder(o, Supplied(regs, kept, o.op))
          /\ \A x \in 1..Len(kept) : kept[x] >= c
          /\ (\A d \in (c + 1)..o.nregs : regs[d].position # Str("before"))
             => kept[1] = c
          /\ (o.nregs = 4 /\ o.status = "resolved"
              /\ SubSeq(regs, 1, 4) = <<LibrDefault, LibrBefore, LibrClear, LibrAfter>>)
             => o.called = IF o.op = "setup" THEN <<"clear.setup", "after.setup">>
                           ELSE <<"clear.run", "after.run">>

C3_Witness ==
  /\ regs = <<LibrDefault, LibrBefore, LibrClear, LibrAfter>>
  /\ setupAt = 4
  /\ last.op = "run" /\ last.status = "resolved"
  /\ last.called = <<"clear.run", "after.run">>

\* C4: in run(trigger, data) every run callback after the first receives the
\* value the callback before it returned, and run resolves to the value the
\* last callback returned; callbacks returning 'a', 'b' and their input give
\* 'b'.
C4_AccumulatorThreading ==
  \A o \in Ops :
    o.op = "run" =>
      /\ Len(o.accIn) = Len(o.called)
      /\ \A x \in 2..Len(o.called) :
           o.accIn[x] = Returns(o.called[x - 1], o.accIn[x - 1], o.sawPushed[x - 1])
      /\ (o.status = "resolved" /\ o.called # <<>>)
         => o.value = Returns(o.called[Len(o.called)], o.accIn[Len(o.called)],
                              o.sawPushed[Len(o.called)])
      /\ (o.status = "resolved" /\ o.called = <<"f1", "f2", "f3">>)
         => o.value = Str("b")

C4_Witness ==
  /\ last.op = "run" /\ last.status = "resolved"
  /\ last.called = <<"f1", "f2", "f3">>
  /\ last.accIn = <<Undefined, Str("a"), Str("b")>>
  /\ last.value = Str("b")

\* C5: the first run callback of every run invocation receives undefined,
\* which is not null: a single run callback returning null makes run resolve
\* to null, and a run that has no callback to invoke resolves to undefined.
C5_UndefinedNotNull ==
  \A o \in Ops :
    o.op = "run" =>
      /\ o.called # <<>> => o.accIn[1] = Undefined /\ o.accIn[1] # Null
      /\ (o.status = "resolved" /\ o.called = <<"fnull">>) => o.value = Null
      /\ (o.status = "resolved" /\ o.called = <<>>)
         => o.value = Undefined /\ o.value # Null

C5_Witness ==
  /\ last.op = "run" /\ last.status = "resolved"
  /\ last.called = <<"fnull">>
  /\ last.accIn = <<Undefined>>
  /\ last.value = Null

\* C6: run(trigger, data) with a trigger no bundle was registered under is
\* rejected with an error, invokes no callback, and changes neither the
\* registry nor the shared context.
C6_RunUnknownTrigger ==
  [][(last'.op = "run" /\ invs = <<>> /\ ~has(registry, last'.trigger))
     => /\ last'.status = "rejected" /\ last'.error = "Error"
        /\ last'.called = <<>>
        /\ invs' = <<>>
        /\ registry' = registry
        /\ pluginsContext' = pluginsContext /\ options' = options /\ seed' = seed]_allvars

C6_Witness ==
  /\ last.op = "run" /\ last.status = "rejected" /\ last.error = "Error"
  /\ last.trigger = "missing"
  /\ has(registry, "test") /\ ~has(registry, "missing")
  /\ setupAt = Len(regs)

\* A value that is present and holds an element that is no function.
HoldsNonFunction(v) ==
  ~isNullsy(v) /\ \E x \in 1..Len(AsList(v)) : ~isFunction(AsList(v)[x])

\* The bundles C7 says register rejects.
MustFail(b) ==
  \/ ~isObject(b)
  \/ ~isString(b.trigger)
  \/ ~isNullsy(b.position) /\ b.position \notin {Str("before"), Str("clear"), Str("after")}
  \/ isNullsy(b.run)
  \/ HoldsNonFunction(b.setup) \/ HoldsNonFunction(b.run) \/ HoldsNonFunction(b.teardown)

\* C7: register fails for every bundle that is no object, whose trigger is no
\* string, whose position is present and not 'before', 'clear' or 'after',
\* whose run is absent, or whose setup, run or teardown holds an element that
\* is no function.
C7_ValidationRejects ==
  \A x \in 1..Len(AsList(last.arg)) :
    (last.op = "register" /\ MustFail(AsList(last.arg)[x]))
    => last.status = "threw" /\ last.done < x

\* C8: a bundle that fails validation leaves the registry as it was before
\* that bundle was processed: the bundles ahead of it in the call are
\* registered, nothing else changes, and a new trigger gets no entry.
C8_AtomicPerBundle ==
  [][(last'.op = "register" /\ last'.status = "threw")
     => LET ahead == SubSeq(AsList(last'.arg), 1, last'.done) IN
        /\ regs' = regs \o ahead
        /\ registry' = register(registry, invs, regs, Arr(ahead)).registry
        /\ last'.done = 0 => registry' = registry
        /\ Triggers(registry') = Triggers(registry) \cup {ahead[x].trigger.s : x \in 1..Len(ahead)}]_allvars

C8_Witness ==
  /\ last.op = "register" /\ last.status = "threw" /\ last.done = 0
  /\ last.arg = Arr(<<[AccA EXCEPT !.run = Undefined]>>)
  /\ has(registry, "test") /\ ~has(registry, "acc")

\* C9: register rejects a bundle whose run is a sequence with no callback in
\* it, so no trigger of the registry has an empty run sequence.
C9_RunNeverEmpty ==
  /\ \A x \in 1..Len(AsList(last.arg)) :
       (last.op = "register" /\ isObject(AsList(last.arg)[x])
        /\ AsList(last.arg)[x].run = Arr(<<>>))
       => last.status = "threw" /\ last.done < x
  /\ \A k \in 1..Len(registry) : flatten1Level(registry[k].run) # <<>>

\* The names of the functions among a list of values.
RECURSIVE FunctionNames(_)
FunctionNames(values) ==
  IF values = <<>> THEN <<>>
  ELSE (IF isFunction(Head(values)) THEN <<Head(values).f>> ELSE <<>>)
       \o FunctionNames(Tail(values))

\* The teardown callbacks of every trigger, in the registry's order.
RECURSIVE AllTeardowns(_, _)
AllTeardowns(reg, k) ==
  IF k > Len(reg) THEN <<>>
  ELSE flatten1Level(reg[k].teardown) \o AllTeardowns(reg, k + 1)

\* C10: teardown() completes without error when a registered bundle supplied
\* no teardown callback: that bundle is skipped and the teardown callbacks of
\* the other bundles and triggers are invoked in order.  Stated for the
\* teardown() calls that follow a setup() of bundles that all supplied setup
\* callbacks, none of which throws or rejects.
C10_TeardownOptional ==
  \A o \in Ops :
    (o.op = "teardown" /\ o.flat /\ NoneFails(o.nregs)
       /\ \A x \in 1..o.nregs : Truthy(regs[x].setup))
    => /\ o.status # "rejected"
       /\ IsPrefix(o.called, FunctionNames(AllTeardowns(registry, 1)))
       /\ o.status = "resolved" => o.called = FunctionNames(AllTeardowns(registry, 1))

\* The setup callbacks of every trigger, in the registry's order.
RECURSIVE AllSetups(_, _)
AllSetups(reg, k) ==
  IF k > Len(reg) THEN <<>>
  ELSE flatten1Level(reg[k].setup) \o AllSetups(reg, k + 1)

\* C11: setup() completes without error when a registered bundle supplied no
\* setup callback: that bundle adds nothing to the setup sequence and the
\* setup callbacks of the other bundles and triggers are invoked in order.
\* Stated for bundles that each supplied either no setup or a valid one, and
\* no callback that throws or rejects.
C11_SetupOptional ==
  \A o \in Ops :
    (o.op = "setup" /\ NoneFails(o.nregs)
       /\ \A x \in 1..o.nregs : isNullsy(regs[x].setup) \/ Truthy(regs[x].setup))
    => /\ o.status # "rejected"
       /\ IsPrefix(o.called, FunctionNames(AllSetups(registry, 1)))
       /\ o.status = "resolved" => o.called = FunctionNames(AllSetups(registry, 1))

\* The operation a step worked on, and whether the step called a callback.
Worked == IF invs' # <<>> THEN invs'[1] ELSE last'
CalledNow ==
  /\ Worked.op \in {"setup", "run", "teardown"}
  /\ Len(Worked.called) > (IF invs # <<>> THEN Len(invs[1].called) ELSE 0)

\* C12: every setup, run and teardown callback of every trigger is passed the
\* one shared context: it finds on it, and on its options, every property
\* written so far, by whatever callback of whatever trigger or phase, its own
\* writes land on it, and nothing is ever taken off it.
C12_SharedContext ==
  [][ /\ pluginsContext \subseteq pluginsContext'
      /\ options \subseteq options'
      /\ CalledNow =>
            LET n == Len(Worked.called) IN
            /\ Worked.sawShared[n] = pluginsContext
            /\ Worked.sawOptions[n] = options
            /\ pluginsContext' = pluginsContext \cup WritesShared(Worked.called[n])
            /\ options' = options \cup WritesOptions(Worked.called[n]) ]_allvars

\* The teardown callback of trigger 'test' finds what the setup callback of
\* trigger 'share', the run callback of trigger 'sendResetPwd' and the
\* callbacks of its own trigger wrote.
C12_Witness ==
  /\ last.op = "teardown"
  /\ last.called # <<>> /\ last.called[1] = "basic.teardown"
  /\ {"sharedSetup", "fromRun1"} \subseteq last.sawShared[1]
  /\ {"setups", "runs"} \subseteq last.sawOptions[1]

\* C13: every run(trigger, data) starts with a fresh, empty per-invocation
\* context: its first callback finds it empty, whatever setup callbacks or
\* earlier run invocations wrote into theirs, and each later callback of the
\* invocation finds on it what the callbacks before it in the invocation
\* wrote.
C13_FreshRunContext ==
  \A o \in Ops :
    o.op = "run" =>
      \A x \in 1..Len(o.called) :
        o.sawLocal[x] = IF x = 1 THEN {}
                        ELSE o.sawLocal[x - 1] \cup WritesLocal(o.called[x - 1])

\* After a setup() and an earlier run('sendResetPwd'), whose first callbacks
\* wrote into their own contexts, the first callback of run('sendResetPwd')
\* finds an empty context and the second what the first wrote.
C13_Witness ==
  /\ last.op = "run" /\ last.status = "resolved"
  /\ last.called = <<"pair.run1", "pair.run2">>
  /\ {"sharedSetup", "fromRun1"} \subseteq last.sawShared[1]
  /\ last.sawLocal = <<{}, {"fromRun1"}>>

\* C14: has(trigger) returns true once a bundle has been registered under the
\* trigger, before setup() as after it, and false for a trigger under which
\* none has been; it changes neither the registry nor the shared context.
C14_HasReflectsRegister ==
  [][ last'.op = "has" =>
        /\ last'.status = "returned"
        /\ last'.value = Bool(\E x \in 1..Len(regs) : regs[x].trigger = last'.arg)
        /\ registry' = registry
        /\ pluginsContext' = pluginsContext /\ options' = options /\ seed' = seed
    ]_allvars

\* has('test') is true right after register and before any setup().
C14_Witness ==
  /\ last.op = "has" /\ last.arg = Str("test") /\ last.value = Bool(TRUE)
  /\ Len(regs) = 1 /\ setupAt = -1

\* C15: within one setup(), run() or teardown() the callbacks execute one at
\* a time: the invocation waits for the one callback it called last and for
\* no other, so a callback, of the same trigger or of the next, is called
\* only when every callback called before it has completed.
C15_OneAtATime ==
  \A o \in Ops :
    o.op \in {"setup", "run", "teardown"} =>
      /\ Len(o.inflight) <= 1
      /\ o.status = "pending" <=> o.inflight # <<>>
      /\ o.inflight # <<>> => o.inflight = <<o.called[Len(o.called)]>>

\* setup() waits for the first setup callback of the second trigger, having
\* seen the callback of the first trigger complete.
C15_Witness ==
  /\ invs # <<>> /\ invs[1].op = "setup"
  /\ invs[1].calledFor = <<"one", "two">>
  /\ invs[1].called = <<"one.setup", "two.setup">>
  /\ invs[1].inflight = <<"two.setup">>

\* C16: when a setup, run or teardown callback throws or rejects, the
\* invocation rejects with that error, it calls no callback after the failing
\* one, of the same trigger or of a later one, and what the callbacks it did
\* call wrote to the shared context stays.
C16_CallbackFailure ==
  \A o \in Ops :
    o.op \in {"setup", "run", "teardown"} =>
      LET n == Len(o.called) IN
      /\ \A x \in 1..(n - 1) : Fails(o.called[x]) = "no"
      /\ (n > 0 /\ Fails(o.called[n]) = "throws")
           => o.status = "rejected" /\ o.error = ErrorOf(o.called[n])
      /\ (n > 0 /\ Fails(o.called[n]) = "rejects")
           => \/ o.status = "pending" /\ o.inflight = <<o.called[n]>>
              \/ o.status = "rejected" /\ o.error = ErrorOf(o.called[n])
      /\ \A x \in 1..n : /\ WritesShared(o.called[x]) \subseteq pluginsContext
                          /\ WritesOptions(o.called[x]) \subseteq options

\* setup() rejected at the throwing second callback of trigger 'one': the
\* third and the callback of trigger 'two' were not called, and what the
\* first wrote is on the shared context.
C16_Witness ==
  /\ regs = <<SetupThrows, TwoFull>>
  /\ last.op = "setup" /\ last.status = "rejected" /\ last.error = "Thrown"
  /\ last.called = <<"share.setup1", "setup.throws">>
  /\ "sharedSetup" \in pluginsContext

\* The properties the callbacks an operation called have written on the
\* shared context itself, and on its options.
RECURSIVE WrittenShared(_)
WrittenShared(called) ==
  IF called = <<>> THEN {} ELSE WritesShared(Head(called)) \cup WrittenShared(Tail(called))
RECURSIVE WrittenOptions(_)
WrittenOptions(called) ==
  IF called = <<>> THEN {} ELSE WritesOptions(Head(called)) \cup WrittenOptions(Tail(called))

\* C17: the shared context is a shallow clone of the constructor's argument,
\* made once: it always has the plugins property and the properties of the
\* seed; plugins and the top-level properties callbacks add never appear on
\* the seed; what callbacks write inside the seed's options object is seen
\* through the seed.
C17_ShallowClone ==
  /\ "plugins" \in pluginsContext /\ seed \subseteq pluginsContext
  /\ seed = {"options"}
  /\ "init" \in options
  /\ \A o \in Ops :
       /\ WrittenShared(o.called) \subseteq pluginsContext \ seed
       /\ WrittenOptions(o.called) \subseteq options

\* After the setup callbacks of the test and of trigger 'share' have written
\* options.setups and sharedSetup, the seed has options alone, with setups.
C17_Witness ==
  /\ last.op = "setup" /\ last.status = "resolved"
  /\ last.called = <<"basic.setup", "share.setup1", "share.setup2">>
  /\ seed = {"options"} /\ options = {"init", "setups"}
  /\ pluginsContext = {"options", "plugins", "sharedSetup"}

\* C18: after setup(), and until the next register, the setup, the run and
\* the teardown sequence of every trigger is the one-level flattening of
\* what its bundles supplied: a single callback as itself, a sequence as its
\* callbacks in their order, the bundles in the order given by the
\* registration policy.
C18_FlattenedSequences ==
  setupAt = Len(regs) =>
    \A k \in 1..Len(registry) : \A op \in {"setup", "run", "teardown"} :
      Phase(registry[k], op)
        = Supplied(regs, PolicyOrder(regs, Len(regs), registry[k].trigger), op)

\* After setup() of a default bundle, a bundle registered behind it with a
\* sequence of three run callbacks and a bundle registered 'before'.
C18_Witness ==
  /\ regs = <<AccA, AccList, AccSame>> /\ setupAt = 3
  /\ last.op = "setup" /\ last.status = "resolved"
  /\ registry[1].run = <<Fn("f3"), Fn("f1"), Fn("f1"), Fn("f2"), Fn("f3")>>

\* The place in the history of the first bundle registered under a trigger.
FirstAt(trigger) ==
  CHOOSE x \in 1..Len(regs) :
    /\ regs[x].trigger = Str(trigger)
    /\ \A y \in 1..(x - 1) : regs[y].trigger # Str(trigger)

\* C19: setup() goes through the triggers in the order in which each was
\* first registered: a later registration under a trigger, a 'clear' one
\* included, leaves the trigger at its place.  A setup() that resolved has
\* called the callbacks of every trigger that has setup callbacks.
C19_SetupTriggerOrder ==
  \A o \in Ops :
    o.op = "setup" =>
      /\ \A x, y \in 1..Len(o.calledFor) :
           x < y => FirstAt(o.calledFor[x]) <= FirstAt(o.calledFor[y])
      /\ o.status = "resolved" =>
           \A z \in 1..o.nregs :
             (\E w \in 1..Len(registry) :
                 registry[w].trigger = regs[z].trigger.s /\ registry[w].setup # <<>>)
             => \E x \in 1..Len(o.calledFor) : o.calledFor[x] = regs[z].trigger.s

\* Trigger 'one' was registered first, then 'two', then 'one' again with
\* 'clear': setup() calls the clearing bundle's callback ahead of that of
\* trigger 'two'.
C19_Witness ==
  /\ regs = <<OneFull, TwoFull, OneClear>>
  /\ last.op = "setup" /\ last.status = "resolved"
  /\ last.called = <<"cleared.setup", "two.setup">>
  /\ last.calledFor = <<"one", "two">>

\* C20: teardown(), whatever its argument, calls the teardown callbacks of
\* every registered trigger, the triggers in the order of their first
\* registration as in setup().  Stated for the teardown() calls that follow a
\* setup() of bundles that all supplied setup callbacks, none of which throws
\* or rejects.
C20_TeardownAllTriggers ==
  \A o \in Ops :
    (o.op = "teardown" /\ o.flat /\ NoneFails(o.nregs)
       /\ \A x \in 1..o.nregs : Truthy(regs[x].setup))
    => /\ \A x, y \in 1..Len(o.calledFor) :
            x < y => FirstAt(o.calledFor[x]) <= FirstAt(o.calledFor[y])
       /\ o.status # "rejected"
       /\ IsPrefix(o.called, FunctionNames(AllTeardowns(registry, 1)))
       /\ o.status = "resolved" => o.called = FunctionNames(AllTeardowns(registry, 1))

\* C21: setup() and teardown() create the per-phase context once per trigger:
\* the first callback of a trigger finds it empty, whatever the callbacks of
\* the trigger before it, or of an earlier phase, wrote into theirs; a later
\* callback of the trigger finds on it what the earlier ones of the trigger
\* wrote; and the first callback of a run finds an empty one as well.
C21_ContextPerTrigger ==
  \A o \in Ops :
    /\ o.op \in {"setup", "teardown"} =>
         \A x \in 1..Len(o.called) :
           o.sawLocal[x] = IF x = 1 \/ o.calledFor[x] # o.calledFor[x - 1] THEN {}
                           ELSE o.sawLocal[x - 1] \cup WritesLocal(o.called[x - 1])
    /\ (o.op = "run" /\ o.called # <<>>) => o.sawLocal[1] = {}

\* teardown() after setup(): the teardown callback of trigger 'test' wrote
\* into its context, the first callback of trigger 'share' finds an empty
\* one, though its setup callbacks wrote into theirs, and the second finds
\* what the first wrote.
C21_Witness ==
  /\ last.op = "teardown" /\ last.status = "resolved"
  /\ last.called = <<"basic.teardown", "share.teardown1", "share.teardown2">>
  /\ last.calledFor = <<"test", "share", "share">>
  /\ last.sawLocal = <<{}, {}, {"localTeardown"}>>
  /\ "sharedSetup" \in last.sawShared[1]

\* C22: in every state reached by register calls alone, before any setup(),
\* the setup, run and teardown lists of every trigger have the same length
\* and position i of each holds what one and the same registered bundle
\* supplied, the bundle the registration policy puts at place i, under any
\* mix of 'before', 'after' and 'clear'.
C22_CongruentLists ==
  setupAt = -1 =>
    \A k \in 1..Len(registry) :
      LET order == PolicyOrder(regs, Len(regs), registry[k].trigger) IN
      /\ Len(registry[k].setup) = Len(order)
      /\ Len(registry[k].run) = Len(order)
      /\ Len(registry[k].teardown) = Len(order)
      /\ \A i \in 1..Len(order) :
           /\ registry[k].setup[i] = regs[order[i]].setup
           /\ registry[k].run[i] = regs[order[i]].run
           /\ registry[k].teardown[i] = regs[order[i]].teardown

\* A bundle, a clearing bundle and a bundle registered 'before' under one
\* trigger: the 'before' bundle holds place 1 and the clearing one place 2
\* of the three lists.
C22_Witness ==
  /\ setupAt = -1 /\ regs = <<OneFull, OneClear, OneBare>>
  /\ registry[1].setup = <<Undefined, Fn("cleared.setup")>>
  /\ registry[1].run = <<Fn("bare.run"), Fn("cleared.run")>>
  /\ registry[1].teardown = <<Undefined, Fn("cleared.teardown")>>

\* An invocation carried on, every callback it awaits completing, until it
\* has ended.  While the callback it awaits has returned the promise of a
\* run it started, that run is carried on to its end first, and its end
\* settles the promise; the runs a run starts stand behind it.
RECURSIVE Finish(_)
Finish(st) ==
  IF st.inv.status # "pending" THEN st
  ELSE IF st.inv.waits = 0
  THEN CHOOSE r \in {Finish(c) : c \in {Continue(st)}} : TRUE
  ELSE CHOOSE r \in
         {LET is == Remove(Completes(c.invs, c.self, c.inv), c.self)
          IN Finish([c EXCEPT !.invs = is, !.self = st.self, !.inv = is[st.self]])
            : c \in {Finish(Step(Sync(st), st.inv.waits,
                                 Sync(st).invs[st.inv.waits]))}} : TRUE

\* What the run o would have done on the registry as setup() would flatten
\* it, the test's array being as o found it.
RunAfterSetup(o) ==
  Finish(run([Now EXCEPT !.registry = Flatten(registry), !.invs = <<>>,
                         !.pushed = IF o.sawPushed = <<>> THEN pushed
                                    ELSE o.sawPushed[1]],
             o.trigger, Str("data"))).inv

\* The run values of the bundles in force under a trigger, as supplied.
RunsSupplied(o) ==
  LET order == PolicyOrder(regs, o.nregs, o.trigger) IN
  [i \in 1..Len(order) |-> regs[order[i]].run]

\* C23 as stated: a run(trigger) made before any setup() invokes the same run
\* callbacks in the same order as a run(trigger) made after setup() would,
\* whatever the registered bundles, those that supplied run as a sequence
\* included.
C23_RunBeforeSetup ==
  (last.op = "run" /\ setupAt = -1 /\ has(registry, last.trigger))
  => last.called = RunAfterSetup(last).called

\* C23 as amended: a run(trigger) made before any setup() invokes the same
\* run callbacks in the same order, and ends the same way, as one made after
\* setup() would, when every bundle in force under the trigger supplied run
\* as a single callback; when one supplied a sequence, the run made before
\* setup() invokes the callbacks ahead of that bundle's and rejects.
C23_RunBeforeSetupSingle ==
  (last.op = "run" /\ setupAt = -1 /\ has(registry, last.trigger))
  => LET after == RunAfterSetup(last)
         supplied == RunsSupplied(last)
     IN IF \A i \in 1..Len(supplied) : isFunction(supplied[i])
        THEN /\ last.called = after.called
             /\ last.status = after.status /\ last.value = after.value
        ELSE /\ last.status = "rejected"
             /\ IsPrefix(last.called, after.called)
             /\ last.error = "TypeError" => last.called = LeadingNames(supplied)

\* Before any setup(), run('test') of a bundle, a bundle registered 'before'
\* and one registered 'after', each with one run callback.
C23_Witness ==
  /\ setupAt = -1 /\ regs = <<LibrDefault, LibrBefore, LibrAfter>>
  /\ last.op = "run" /\ last.status = "resolved"
  /\ last.called = <<"before.run", "default.run", "after.run">>

\* C24: when register is given a sequence of bundles and the bundle at place
\* k is the first to fail validation, register throws, the bundles ahead of
\* place k are registered, each by its policy, and no bundle at place k or
\* behind it is: the registered bundles are those before the call and the
\* ones ahead of place k, and every trigger's lists hold, flattened, what
\* these supplied in the order the policies give.
C24_SequenceFailsAtK ==
  [][(last'.op = "register" /\ last'.status = "threw" /\ isArray(last'.arg))
     => LET plugins == last'.arg.a
            k == last'.done + 1
        IN /\ k <= Len(plugins) /\ ValidationError(plugins[k]) # ""
           /\ \A x \in 1..(k - 1) : ValidationError(plugins[x]) = ""
           /\ regs' = regs \o SubSeq(plugins, 1, k - 1)
           /\ Triggers(registry') = {regs'[x].trigger.s : x \in 1..Len(regs')}
           /\ \A e \in 1..Len(registry') : \A op \in {"setup", "run", "teardown"} :
                flatten1Level(Phase(registry'[e], op))
                  = Supplied(regs', PolicyOrder(regs', Len(regs'), registry'[e].trigger), op)
    ]_allvars

\* A sequence of a clearing bundle, a bundle without a trigger and a valid
\* bundle of another trigger, registered after a first bundle: the clearing
\* bundle alone is in force, the third bundle is not registered.
C24_Witness ==
  /\ last.op = "register" /\ last.status = "threw" /\ last.done = 1
  /\ last.error = "trigger"
  /\ last.arg = Arr(<<PlainClear, [AccA EXCEPT !.trigger = Null], AccB>>)
  /\ regs = <<PlainDefault, PlainClear>>
  /\ registry[1].run = <<Fn("plain.run")>>
  /\ ~has(registry, "acc")

(***************************************************************************)
(* Hosts that do not await: after register and setup() they start runs     *)
(* while others are in progress, and their run callbacks call run and      *)
(* register themselves through pluginsContext.plugins.                     *)
(***************************************************************************)
\* A run whose second callback runs trigger 'inner', the bundle of that
\* trigger, and a run whose second callback registers under its own trigger.
OuterPlugin ==
  Plugin(Str("outer"), Undefined, Fn("noop"),
         Arr(<<Fn("outer.first"), Fn("nest"), Fn("f3")>>), Fn("noop"))
InnerPlugin ==
  Plugin(Str("inner"), Undefined, Fn("noop"),
         Arr(<<Fn("inner.first"), Fn("f3")>>), Fn("noop"))
GrowBy(f) ==
  Plugin(Str("grow"), Undefined, Fn("noop"),
         Arr(<<Fn("grow.first"), Fn(f), Fn("grow.last")>>), Fn("noop"))

ReentrantHosts == {"nested", "before", "after", "clear"}

\* What the host registers before setup().
Library(h) ==
  CASE h = "nested" -> <<OuterPlugin, InnerPlugin, AccList>>
    [] h = "before" -> <<GrowBy("register.before")>>
    [] h = "after" -> <<GrowBy("register.after")>>
    [] h = "clear" -> <<GrowBy("register.clear")>>

\* The triggers the host runs.
ReentrantTriggers(h) == IF h = "nested" THEN {"outer", "inner", "acc"} ELSE {"grow"}

MaxInvs == 2

\* The host has constructed the registry, registered its library and
\* awaited setup().
InitReentrant ==
  /\ host \in ReentrantHosts
  /\ seed = constructor({"options"}).seed
  /\ \E r \in {register(<<>>, <<>>, <<>>, Arr(Library(host)))} :
     \E st \in {Finish(setup(World(r.registry, constructor({"options"})._pluginsContext,
                                   {"init"}, 0, <<>>, r.regs, -1)))} :
        /\ registry = st.registry
        /\ pluginsContext = st.pluginsContext
        /\ options = st.options
        /\ pushed = st.pushed
        /\ regs = st.regs
        /\ setupAt = st.setupAt
        /\ last = st.inv
  /\ invs = <<>>

\* The host calls run(trigger, data) without awaiting the runs in progress:
\* at most MaxInvs of its own at a time, one of trigger 'outer', and none
\* once MaxRegs bundles are registered.
RunDuring(trigger) ==
  /\ Len(invs) < MaxInvs
  /\ Len(regs) < MaxRegs
  /\ trigger = "outer" => \A j \in 1..Len(invs) : invs[j].trigger # "outer"
  /\ Settle(run(Now, trigger, Str("data")))
  /\ UNCHANGED <<seed, host>>

\* The promise invocation j awaits has settled.
ResumeDuring(j) ==
  /\ invs[j].waits = 0
  /\ Settle(Continue(Step(Now, j, invs[j])))
  /\ UNCHANGED <<seed, host>>

NextReentrant ==
  \/ \E trigger \in ReentrantTriggers(host) : RunDuring(trigger)
  \/ \E j \in 1..Len(invs) : ResumeDuring(j)

Reentrant == InitReentrant /\ [][NextReentrant]_allvars

\* What a run(trigger) made now resolves to when no other run is in progress.
Alone(trigger) ==
  Finish(run([Now EXCEPT !.invs = <<>>], trigger, Str("data"))).inv

\* What the x-th callback a run called handed back: its return value, or for
\* a callback that runs a trigger itself the value of that run.
HandedBack(o, x) ==
  IF Nests(o.called[x]) # "" THEN Alone(Nests(o.called[x])).value
  ELSE Returns(o.called[x], o.accIn[x], o.sawPushed[x])

\* C25: runs in progress at the same time, started by the host one during
\* the other or by a run callback through pluginsContext.plugins, each have
\* their own accumulator and their own per-invocation context: the first
\* callback of a run gets undefined and an empty context, each later one what
\* the callback before it in the same run handed back and the context with
\* what the callbacks before it in the same run wrote, a run resolves to what
\* its own last callback handed back, and what a callback wrote to the shared
\* context every later callback of any run finds.
C25_RunsKeepApart ==
  \A o \in Ops :
    o.op = "run" =>
      LET n == Len(o.called) IN
      /\ \A x \in 1..n :
           /\ o.accIn[x] = IF x = 1 THEN Undefined ELSE HandedBack(o, x - 1)
           /\ o.sawLocal[x] = IF x = 1 THEN {}
                               ELSE o.sawLocal[x - 1] \cup WritesLocal(o.called[x - 1])
           /\ o.sawShared[x] \subseteq pluginsContext
           /\ WritesShared(o.called[x]) \subseteq pluginsContext
      /\ (o.status = "resolved" /\ n > 0) => o.value = HandedBack(o, n)

\* The run of trigger 'outer' awaits its second callback, which started the
\* run of trigger 'inner', and a run of trigger 'acc' the host started is in
\* progress too: each has its own accumulator and context, and the first
\* callback of the inner run found what the outer run's wrote on the shared
\* context.
C25_Witness ==
  \E a, b, c \in 1..Len(invs) :
    /\ invs[a].trigger = "outer" /\ invs[a].waits = b
    /\ invs[a].accIn = <<Undefined, Str("a")>>
    /\ invs[a].pluginContext = {"fromOuter"}
    /\ invs[b].trigger = "inner" /\ invs[b].nested
    /\ invs[b].accIn = <<Undefined>> /\ invs[b].sawLocal = <<{}>>
    /\ invs[b].pluginContext = {"fromInner"}
    /\ "outerRan" \in invs[b].sawShared[1]
    /\ invs[c].trigger = "acc" /\ invs[c].accIn = <<Undefined, Str("a"), Str("b")>>

\* The run callbacks of a run's trigger when the run started, the registry
\* being flattened then.
RunsAtStart(o) ==
  LeadingNames(Supplied(regs, PolicyOrder(regs, o.nregs, o.trigger), "run"))

\* C26: a run(trigger) made after setup() invokes every callback that was in
\* the trigger's run sequence when it started exactly once and in the order
\* of the sequence, also when one of its run callbacks registers a further
\* bundle under the trigger, 'before', 'after' or 'clear', meanwhile.
C26_RunKeepsItsSequence ==
  \A o \in Ops :
    (o.op = "run" /\ o.flat)
    => /\ IsPrefix(o.called, RunsAtStart(o))
       /\ o.status # "rejected"
       /\ o.status = "resolved" => o.called = RunsAtStart(o)

====
